---- MODULE Spec2Model ----
(***************************************************************************)
(* Model of src/DeepResearch.py: the StockResearchAgent pipeline           *)
(* (plan -> retrieve -> extract -> synthesize -> insights -> citations ->  *)
(* report) and the two bullet-accumulation parsers it contains.            *)
(*                                                                         *)
(* Text is a sequence of one-character strings; "\n" is the line break and *)
(* "U" stands for the bullet character U+2022.  Longer literals of the     *)
(* source (default topics, fallback narratives) are single atomic tokens.  *)
(***************************************************************************)
EXTENDS Integers, Sequences, FiniteSets, TLC

VARIABLES
    pc,              \* position of analyze_stock: next stage to run
    stock_symbol,    \* argument of analyze_stock
    focus_arg,       \* argument of analyze_stock: [given, areas]
    research_plan,   \* self.research_plan
    documents,       \* self.documents   (insertion-ordered dict)
    extracted_info,  \* self.extracted_info (insertion-ordered dict)
    synthesis,       \* self.synthesis
    insights,        \* self.insights
    citations,       \* self.citations
    final_report,    \* value returned by analyze_stock
    raised,          \* an exception left a stage uncaught
    calls,           \* log of the generation calls made: <<[stage, ok]>>
    discarded,       \* findings the Extractor had parsed when it fell back
    swot_prompt,     \* the first prompt the Insight Generator composed
    text,            \* parser bench: response text under test
    parsed           \* parser bench: [planner, extractor] results so far

vars == <<pc, stock_symbol, focus_arg, research_plan, documents, extracted_info,
          synthesis, insights, citations, final_report, raised, calls,
          discarded, swot_prompt, text, parsed>>

pipeVars == <<pc, stock_symbol, focus_arg, research_plan, documents,
              extracted_info, synthesis, insights, citations, final_report,
              raised, calls, discarded, swot_prompt>>

benchVars == <<text, parsed>>

----------------------------------------------------------------------------
(* Bounds *)

MaxLines == 3          \* lines of a response text on the parser bench
MaxPlanLines == 2      \* lines of a short planning response in the pipeline

----------------------------------------------------------------------------
(* Python string and list primitives *)

NL == "\n"
SP == " "
BULLET == "U"

Str(tok) == <<tok>>

Take(s, n) == SubSeq(s, 1, IF Len(s) < n THEN Len(s) ELSE n)

StartsWith(s, p) == Len(s) >= Len(p) /\ SubSeq(s, 1, Len(p)) = p

RECURSIVE LStrip(_)
LStrip(s) == IF s # <<>> /\ Head(s) \in {SP, NL} THEN LStrip(Tail(s)) ELSE s

RECURSIVE RStrip(_)
RStrip(s) ==
    IF s # <<>> /\ s[Len(s)] \in {SP, NL} THEN RStrip(SubSeq(s, 1, Len(s) - 1)) ELSE s

Strip(s) == RStrip(LStrip(s))

\* str.split('\n'): always at least one piece
RECURSIVE SplitFrom(_, _, _)
SplitFrom(s, i, cur) ==
    IF i > Len(s) THEN <<cur>>
    ELSE IF s[i] = NL THEN <<cur>> \o SplitFrom(s, i + 1, <<>>)
    ELSE SplitFrom(s, i + 1, Append(cur, s[i]))

SplitLines(s) == SplitFrom(s, 1, <<>>)

\* '\n'.join(lines)
RECURSIVE JoinLines(_)
JoinLines(ls) ==
    IF ls = <<>> THEN <<>>
    ELSE IF Len(ls) = 1 THEN ls[1]
    ELSE ls[1] \o <<NL>> \o JoinLines(Tail(ls))

\* dict.get(key, default)
Get(d, k, default) == IF k \in DOMAIN d THEN d[k] ELSE default

\* insertion-ordered dict as a sequence of [k, v]; d[k] = v
DictPut(d, k, v) ==
    IF \E i \in DOMAIN d : d[i].k = k
    THEN [i \in DOMAIN d |-> IF d[i].k = k THEN [k |-> k, v |-> v] ELSE d[i]]
    ELSE Append(d, [k |-> k, v |-> v])

----------------------------------------------------------------------------
(* The Planner's response parser, lines 107-119 *)

PlannerLine_NoSpace(st, raw) ==
    LET line == Strip(raw) IN
    IF StartsWith(line, <<"-", SP>>) \/ StartsWith(line, <<"*", SP>>)
    THEN [topics  |-> IF st.current # <<>> THEN Append(st.topics, st.current)
                      ELSE st.topics,
          current |-> SubSeq(line, 3, Len(line))]
    ELSE IF line # <<>> /\ st.current # <<>>
    THEN [st EXCEPT !.current = @ \o line]
    ELSE st

PlannerLine(st, raw) ==
    LET line == Strip(raw) IN
    IF StartsWith(line, <<"-", SP>>) \/ StartsWith(line, <<"*", SP>>)
    THEN [topics  |-> IF st.current # <<>> THEN Append(st.topics, st.current)
                      ELSE st.topics,
          current |-> SubSeq(line, 3, Len(line))]
    ELSE IF line # <<>> /\ st.current # <<>>
    THEN [st EXCEPT !.current = @ \o <<SP>> \o line]
    ELSE st

RECURSIVE PlannerLoop(_, _, _)
PlannerLoop(lines, i, st) ==
    IF i > Len(lines) THEN st ELSE PlannerLoop(lines, i + 1, PlannerLine(st, lines[i]))

ParseTopics(response_content) ==
    LET st == PlannerLoop(SplitLines(response_content), 1,
                          [topics |-> <<>>, current |-> <<>>])
    IN IF st.current # <<>> THEN Append(st.topics, st.current) ELSE st.topics

(* The Extractor's response parser, lines 236-248 *)

ExtractorLine_KeepMarker(st, raw) ==
    LET line == Strip(raw) IN
    IF StartsWith(line, <<"-", SP>>) \/ StartsWith(line, <<"*", SP>>)
       \/ StartsWith(line, <<BULLET, SP>>)
    THEN [findings |-> IF st.current # <<>> THEN Append(st.findings, st.current)
                       ELSE st.findings,
          current  |-> Strip(line)]
    ELSE IF line # <<>> /\ st.current # <<>>
    THEN [st EXCEPT !.current = @ \o <<SP>> \o line]
    ELSE st

ExtractorLine(st, raw) ==
    LET line == Strip(raw) IN
    IF StartsWith(line, <<"-", SP>>) \/ StartsWith(line, <<"*", SP>>)
       \/ StartsWith(line, <<BULLET, SP>>)
    THEN [findings |-> IF st.current # <<>> THEN Append(st.findings, st.current)
                       ELSE st.findings,
          current  |-> Strip(SubSeq(line, 3, Len(line)))]
    ELSE IF line # <<>> /\ st.current # <<>>
    THEN [st EXCEPT !.current = @ \o <<SP>> \o line]
    ELSE st

RECURSIVE ExtractorLoop(_, _, _)
ExtractorLoop(lines, i, st) ==
    IF i > Len(lines) THEN st
    ELSE ExtractorLoop(lines, i + 1, ExtractorLine(st, lines[i]))

ParseFindings(response_content) ==
    LET st == ExtractorLoop(SplitLines(response_content), 1,
                            [findings |-> <<>>, current |-> <<>>])
    IN IF st.current # <<>> THEN Append(st.findings, st.current) ELSE st.findings

----------------------------------------------------------------------------
(* The generation capability: a call either fails or returns a text *)

Reply(t) == [ok |-> TRUE, text |-> t]
Fail == [ok |-> FALSE, text |-> <<>>]

\* result of a try body: a value, or an exception in flight with the
\* state the body had built so far
Ok(v) == [exc |-> FALSE, val |-> v]
Exc(v) == [exc |-> TRUE, val |-> v]

NOW == "now"    \* datetime.now().isoformat()

----------------------------------------------------------------------------
(* 1. Planner: _create_research_plan, lines 74-138 *)

DefaultFocusAreas ==
    << Str("business model"), Str("market position"), Str("financial performance"),
       Str("competitive landscape"), Str("future outlook") >>

FallbackTopics ==
    << Str("Company overview"), Str("Financial performance"), Str("Market position") >>

PlanCap == 10

CreateResearchPlan(symbol, focus, resp) ==
    LET focus_areas == IF focus.given THEN focus.areas ELSE DefaultFocusAreas IN
    IF resp.ok
    THEN Ok([stock_symbol    |-> symbol,
             focus_areas     |-> focus_areas,
             research_topics |-> Take(ParseTopics(resp.text), PlanCap),
             creation_date   |-> NOW])
    ELSE Ok([stock_symbol    |-> symbol,
             focus_areas     |-> focus_areas,
             research_topics |-> FallbackTopics,
             creation_date   |-> NOW])

----------------------------------------------------------------------------
(* 2. Retriever: _retrieve_information, lines 140-200 *)

RetrieveCap == 5

DocId(symbol, suffix) == <<"doc_", symbol, "_", suffix>>

Subtopics(plan) ==
    LET subtopics == Get(plan, "research_topics", <<>>) IN
    IF subtopics = <<>> THEN Get(plan, "focus_areas", <<Str("general overview")>>)
    ELSE subtopics

RECURSIVE RetrieveLoop(_, _, _, _, _)
RetrieveLoop(symbol, topics, i, docs, resps) ==
    IF i > Len(topics) THEN Ok(docs)
    ELSE IF ~resps[i].ok THEN Exc(docs)
    ELSE LET doc_id == DocId(symbol, ToString(i)) IN
         RetrieveLoop(symbol, topics, i + 1,
                      DictPut(docs, doc_id,
                              [id             |-> doc_id,
                               topic          |-> topics[i],
                               content        |-> resps[i].text,
                               source         |-> "Claude Knowledge Base",
                               retrieval_date |-> NOW]),
                      resps)

RetrieveBody(symbol, plan, resps) ==
    RetrieveLoop(symbol, Take(Subtopics(plan), RetrieveCap), 1, <<>>, resps)

RetrieveFallback_Empty(symbol) == <<>>

RetrieveFallback(symbol) ==
    LET fallback_doc_id == DocId(symbol, "fallback") IN
    << [k |-> fallback_doc_id,
        v |-> [id             |-> fallback_doc_id,
               topic          |-> Str("General Information"),
               content        |-> <<"General information about ", symbol, ".">>,
               source         |-> "Fallback Source",
               retrieval_date |-> NOW]] >>

RetrieveInformation_NoCatch(symbol, plan, resps) == RetrieveBody(symbol, plan, resps)

RetrieveInformation(symbol, plan, resps) ==
    LET r == RetrieveBody(symbol, plan, resps) IN
    IF r.exc THEN Ok(RetrieveFallback(symbol)) ELSE r

----------------------------------------------------------------------------
(* 3. Extractor: _extract_information, lines 202-277 *)

ParsedConfidence == 9      \* 0.9, in tenths
FallbackConfidence == 5    \* 0.5, in tenths

Findings(doc_id, document, response_content) ==
    LET findings == ParseFindings(response_content) IN
    [j \in 1..Len(findings) |->
        [content         |-> findings[j],
         topic           |-> document.topic,
         source_document |-> doc_id,
         confidence      |-> ParsedConfidence]]

RECURSIVE ExtractLoop(_, _, _, _)
ExtractLoop(docs, i, extracted, resps) ==
    IF i > Len(docs) THEN Ok(extracted)
    ELSE IF ~resps[i].ok THEN Exc(extracted)
    ELSE ExtractLoop(docs, i + 1,
                     DictPut(extracted, docs[i].k,
                             Findings(docs[i].k, docs[i].v, resps[i].text)),
                     resps)

ExtractBody(docs, plan, resps) == ExtractLoop(docs, 1, <<>>, resps)

ExtractFallback(docs) ==
    [i \in 1..Len(docs) |->
        [k |-> docs[i].k,
         v |-> << [content         |-> <<"Information about ">> \o docs[i].v.topic,
                   topic           |-> docs[i].v.topic,
                   source_document |-> docs[i].k,
                   confidence      |-> FallbackConfidence] >>]]

ExtractInformation_KeepParsed(docs, plan, resps) ==
    LET r == ExtractBody(docs, plan, resps) IN
    IF r.exc
    THEN Ok(r.val \o SubSeq(ExtractFallback(docs), Len(r.val) + 1, Len(docs)))
    ELSE r

ExtractInformation(docs, plan, resps) ==
    LET r == ExtractBody(docs, plan, resps) IN
    IF r.exc THEN Ok(ExtractFallback(docs)) ELSE r

----------------------------------------------------------------------------
(* 4. Synthesizer: _synthesize_information, lines 279-384 *)

required_sections ==
    << <<"Company", SP, "Overview">>,
       <<"Business", SP, "Model", SP, "&", SP, "Products">>,
       <<"Market", SP, "Position", SP, "&", SP, "Competition">>,
       <<"Financial", SP, "Performance">>,
       <<"Future", SP, "Outlook">> >>

\* str.lower() / the capitalisation done by str.title(), word by word
Words ==
    { <<"Company", "company">>, <<"Overview", "overview">>,
      <<"Business", "business">>, <<"Model", "model">>,
      <<"Products", "products">>, <<"Market", "market">>,
      <<"Position", "position">>, <<"Competition", "competition">>,
      <<"Financial", "financial">>, <<"Performance", "performance">>,
      <<"Future", "future">>, <<"Outlook", "outlook">> }

LowerTok(t) == IF \E w \in Words : w[1] = t THEN (CHOOSE w \in Words : w[1] = t)[2] ELSE t
TitleTok(t) == IF \E w \in Words : w[2] = t THEN (CHOOSE w \in Words : w[2] = t)[1] ELSE t

Lower(s) == [i \in DOMAIN s |-> LowerTok(s[i])]
Title(s) == [i \in DOMAIN s |-> TitleTok(s[i])]

\* str.replace(old, new)
RECURSIVE Replace(_, _, _)
Replace(s, old, new) ==
    IF s = <<>> THEN <<>>
    ELSE IF StartsWith(s, old) THEN new \o Replace(SubSeq(s, Len(old) + 1, Len(s)), old, new)
    ELSE <<Head(s)>> \o Replace(Tail(s), old, new)

SectionKey(section) ==
    Replace(Replace(Lower(section), <<SP, "&", SP>>, <<"_">>), <<SP>>, <<"_">>)

RECURSIVE SectionLoop(_, _, _)
SectionLoop(i, sections, resps) ==
    IF i > Len(required_sections) THEN Ok(sections)
    ELSE IF ~resps[i].ok THEN Exc(sections)
    ELSE SectionLoop(i + 1,
                     DictPut(sections, SectionKey(required_sections[i]),
                             Strip(resps[i].text)),
                     resps)

SynthesisTitle(symbol) == <<symbol, " Stock Analysis">>

SynthesizeBody(extracted, plan, resps) ==
    LET s == SectionLoop(1, <<>>, resps)
        exec_summary_response == resps[Len(required_sections) + 1]
    IN IF s.exc THEN s
       ELSE IF ~exec_summary_response.ok THEN Exc(s.val)
       ELSE Ok([title             |-> SynthesisTitle(plan.stock_symbol),
                stock_symbol      |-> plan.stock_symbol,
                executive_summary |-> Strip(exec_summary_response.text),
                sections          |-> s.val,
                creation_date     |-> NOW])

FallbackExecutiveSummary == Str("NVIDIA Corporation (NVDA) is a leading technology company ...")

FallbackSections ==
    << [k |-> <<"company", "_", "overview">>,
        v |-> Str("NVIDIA Corporation, founded in 1993 ...")],
       [k |-> <<"business", "_", "model", "_", "&", "_", "products">>,
        v |-> Str("NVIDIA's business model centers on ...")],
       [k |-> <<"market", "_", "position", "_", "&", "_", "competition">>,
        v |-> Str("NVIDIA holds a dominant position ...")],
       [k |-> <<"financial", "_", "performance">>,
        v |-> Str("NVIDIA has demonstrated exceptional financial growth ...")],
       [k |-> <<"future", "_", "outlook">>,
        v |-> Str("NVIDIA's future outlook remains positive ...")] >>

SynthesizeFallback(plan) ==
    [title             |-> SynthesisTitle(plan.stock_symbol),
     stock_symbol      |-> plan.stock_symbol,
     executive_summary |-> FallbackExecutiveSummary,
     sections          |-> FallbackSections,
     creation_date     |-> NOW]

SynthesizeInformation_KeepPartial(extracted, plan, resps) ==
    LET r == SynthesizeBody(extracted, plan, resps) IN
    IF r.exc THEN Ok([SynthesizeFallback(plan) EXCEPT !.sections = r.val]) ELSE r

SynthesizeInformation(extracted, plan, resps) ==
    LET r == SynthesizeBody(extracted, plan, resps) IN
    IF r.exc THEN Ok(SynthesizeFallback(plan)) ELSE r

----------------------------------------------------------------------------
(* 5. Insight Generator: _generate_insights, lines 399-521 *)

\* d.get(key, default) on an insertion-ordered dict
DictGet(d, key, default) ==
    IF \E i \in DOMAIN d : d[i].k = key
    THEN d[CHOOSE i \in DOMAIN d : d[i].k = key].v
    ELSE default

SwotSlot(synth, key) == DictGet(Get(synth, "sections", <<>>), key, <<>>)

\* swot_prompt, lines 405-426
SwotPrompt(synth, symbol) ==
    <<"Create a detailed SWOT analysis for ", symbol, " ...", NL>>
    \o <<"COMPANY OVERVIEW:", NL>>
    \o SwotSlot(synth, <<"company", "_", "overview">>)
    \o <<NL, "BUSINESS MODEL:", NL>>
    \o SwotSlot(synth, <<"business", "_", "model", "_", "&", "_", "products">>)
    \o <<NL, "MARKET POSITION:", NL>>
    \o SwotSlot(synth, <<"market", "_", "position", "_", "&", "_", "competition">>)
    \o <<NL, "FINANCIAL PERFORMANCE:", NL>>
    \o SwotSlot(synth, <<"financial", "_", "performance">>)
    \o <<NL, "FUTURE OUTLOOK:", NL>>
    \o SwotSlot(synth, <<"future", "_", "outlook">>)
    \o <<NL, "Format your response with clear headers ...">>

GenerateBody(synth, symbol, resps) ==
    IF ~resps[1].ok \/ ~resps[2].ok THEN Exc(<<>>)
    ELSE Ok([stock_symbol    |-> symbol,
             insights        |-> [swot_analysis             |-> Strip(resps[1].text),
                                  investment_considerations |-> Strip(resps[2].text)],
             generation_date |-> NOW])

GenerateFallback(symbol) ==
    [stock_symbol    |-> symbol,
     insights        |-> [swot_analysis             |-> Str("**Strengths** ..."),
                          investment_considerations |-> Str("**Competitive Advantages** ...")],
     generation_date |-> NOW]

GenerateInsights(synth, symbol, resps) ==
    LET r == GenerateBody(synth, symbol, resps) IN
    IF r.exc THEN Ok(GenerateFallback(symbol)) ELSE r

----------------------------------------------------------------------------
(* 6. Citation Formatter: _format_citations, lines 386-398 *)

FormatCitations_Reversed(docs) ==
    [i \in 1..Len(docs) |->
        <<Get(docs[Len(docs) + 1 - i].v, "source", "Unknown Source"), ". '">>
        \o Get(docs[Len(docs) + 1 - i].v, "topic", Str("General Information"))
        \o <<"'. Retrieved on ",
             Get(docs[Len(docs) + 1 - i].v, "retrieval_date", "Unknown Date"), ".">>]

FormatCitations(docs) ==
    [i \in 1..Len(docs) |->
        <<Get(docs[i].v, "source", "Unknown Source"), ". '">>
        \o Get(docs[i].v, "topic", Str("General Information"))
        \o <<"'. Retrieved on ", Get(docs[i].v, "retrieval_date", "Unknown Date"), ".">>]

----------------------------------------------------------------------------
(* 7. Report Assembler: _create_final_report, lines 523-599 *)

table_of_contents ==
    << <<"1", ". ", "Introduction">>,
       <<"2", ". ", "Company", SP, "Overview">>,
       <<"3", ". ", "Business", SP, "Model", SP, "&", SP, "Products">>,
       <<"4", ". ", "Market", SP, "Position", SP, "&", SP, "Competition">>,
       <<"5", ". ", "Financial", SP, "Performance">>,
       <<"6", ". ", "Future", SP, "Outlook">>,
       <<"7", ". ", "SWOT Analysis">>,
       <<"8", ". ", "Investment Considerations">>,
       <<"9", ". ", "References">> >>

RECURSIVE AddSynthesisSections(_, _, _)
AddSynthesisSections(sections, items, i) ==
    IF i > Len(items) THEN sections
    ELSE AddSynthesisSections(
             DictPut(sections, items[i].k,
                     [title   |-> Title(Replace(items[i].k, <<"_">>, <<SP>>)),
                      content |-> items[i].v]),
             items, i + 1)

CreateFinalReport_Unguarded(plan, docs, synth, ins, cites) ==
    LET symbol == Get(plan, "stock_symbol", "Unknown")
        summary0 == Get(synth, "executive_summary", <<>>)
        executive_summary == IF summary0 = <<>> THEN FallbackExecutiveSummary ELSE summary0
        s1 == DictPut(<<>>, Str("introduction"),
                      [title   |-> Str("Introduction"),
                       content |-> <<"This report provides a comprehensive analysis of ",
                                     symbol, ", based on available information as of ",
                                     NOW, ". ...">>])
        s2 == AddSynthesisSections(s1, Get(synth, "sections", <<>>), 1)
        s3 == IF ins # <<>> /\ "insights" \in DOMAIN ins
                 /\ "swot_analysis" \in DOMAIN ins.insights
              THEN DictPut(s2, Str("swot_analysis"),
                           [title   |-> Str("SWOT Analysis"),
                            content |-> ins.insights.swot_analysis])
              ELSE s2
        s4 == IF ins # <<>> /\ "insights" \in DOMAIN ins
                 /\ "investment_considerations" \in DOMAIN ins.insights
              THEN DictPut(s3, Str("investment_considerations"),
                           [title   |-> Str("Investment Considerations"),
                            content |-> ins.insights.investment_considerations])
              ELSE s3
        s5 == DictPut(s4, Str("references"),
                      [title   |-> Str("References"),
                       content |-> JoinLines([i \in 1..Len(cites) |->
                                                 <<"-", SP>> \o cites[i]])])
    IN IF "sections" \notin DOMAIN synth THEN Exc(<<>>) ELSE
       Ok([title             |-> <<symbol, " Stock Analysis Report">>,
           executive_summary |-> executive_summary,
           table_of_contents |-> table_of_contents,
           sections          |-> s5,
           metadata          |-> [stock_symbol   |-> symbol,
                                  research_date  |-> NOW,
                                  research_plan  |-> plan,
                                  document_count |-> Len(docs)]])

CreateFinalReport(plan, docs, synth, ins, cites) ==
    LET symbol == Get(plan, "stock_symbol", "Unknown")
        summary0 == Get(synth, "executive_summary", <<>>)
        executive_summary == IF summary0 = <<>> THEN FallbackExecutiveSummary ELSE summary0
        s1 == DictPut(<<>>, Str("introduction"),
                      [title   |-> Str("Introduction"),
                       content |-> <<"This report provides a comprehensive analysis of ",
                                     symbol, ", based on available information as of ",
                                     NOW, ". ...">>])
        s2 == IF synth # <<>> /\ "sections" \in DOMAIN synth
              THEN AddSynthesisSections(s1, synth.sections, 1) ELSE s1
        s3 == IF ins # <<>> /\ "insights" \in DOMAIN ins
                 /\ "swot_analysis" \in DOMAIN ins.insights
              THEN DictPut(s2, Str("swot_analysis"),
                           [title   |-> Str("SWOT Analysis"),
                            content |-> ins.insights.swot_analysis])
              ELSE s2
        s4 == IF ins # <<>> /\ "insights" \in DOMAIN ins
                 /\ "investment_considerations" \in DOMAIN ins.insights
              THEN DictPut(s3, Str("investment_considerations"),
                           [title   |-> Str("Investment Considerations"),
                            content |-> ins.insights.investment_considerations])
              ELSE s3
        s5 == DictPut(s4, Str("references"),
                      [title   |-> Str("References"),
                       content |-> JoinLines([i \in 1..Len(cites) |->
                                                 <<"-", SP>> \o cites[i]])])
    IN Ok([title             |-> <<symbol, " Stock Analysis Report">>,
           executive_summary |-> executive_summary,
           table_of_contents |-> table_of_contents,
           sections          |-> s5,
           metadata          |-> [stock_symbol   |-> symbol,
                                  research_date  |-> NOW,
                                  research_plan  |-> plan,
                                  document_count |-> Len(docs)]])

----------------------------------------------------------------------------
(* Inputs: arguments of analyze_stock and the replies of the generation   *)
(* capability                                                             *)

EmptyDict == [x \in {} |-> x]     \* {}

Symbols == {"NVDA"}

FocusChoices ==
    { [given |-> FALSE, areas |-> <<>>],                     \* focus_areas=None
      [given |-> TRUE,  areas |-> <<>>],
      [given |-> TRUE,  areas |-> <<Str("overview"), Str("financials")>>] }

SeqsUpTo(S, n) == UNION { [1..k -> S] : k \in 1..n }

\* a reply of k one-line bullets "- 1", "- 2", ...
Bullets(k) == JoinLines([i \in 1..k |-> <<"-", SP, ToString(i)>>])

PlanLines == { <<"*", SP, "a">>, <<"c">>, <<>> }

PlanResponses ==
    {Fail}
    \cup { Reply(JoinLines(ls)) : ls \in SeqsUpTo(PlanLines, MaxPlanLines) }
    \cup { Reply(Bullets(RetrieveCap + 1)), Reply(Bullets(PlanCap + 1)) }

RetrieveResponses == { Fail, Reply(Str("DOC")) }

ExtractResponses ==
    { Fail,
      Reply(Str("none")),
      Reply(<<"-", SP, "a", NL, "b", NL, BULLET, SP, "c">>) }

\* narratives come back with surrounding whitespace; an executive summary
\* may also come back blank
SectionResponses == { Fail, Reply(<<SP, "GEN", NL>>) }
SummaryResponses == SectionResponses \cup { Reply(<<SP>>) }
InsightResponses == { Fail, Reply(<<NL, "GEN", SP>>) }

\* the replies to the n calls a stage may make
Oracles(n, R) == [1..n -> R]

SynthesisOracles ==
    { resps \in Oracles(Len(required_sections) + 1, SummaryResponses) :
         \A i \in 1..Len(required_sections) : resps[i] \in SectionResponses }

\* the calls a stage makes of the n it may make: it stops at the first failure
RECURSIVE CallsMade(_, _, _, _)
CallsMade(stage, resps, i, n) ==
    IF i > n THEN <<>>
    ELSE IF ~resps[i].ok THEN <<[stage |-> stage, ok |-> FALSE]>>
    ELSE <<[stage |-> stage, ok |-> TRUE]>> \o CallsMade(stage, resps, i + 1, n)

RECURSIVE CountFindings(_)
CountFindings(extracted) ==
    IF extracted = <<>> THEN 0
    ELSE Len(Head(extracted).v) + CountFindings(Tail(extracted))

----------------------------------------------------------------------------
(* analyze_stock, lines 28-72: one action per stage *)

Init ==
    /\ pc = "plan"
    /\ stock_symbol \in Symbols
    /\ focus_arg \in FocusChoices
    /\ research_plan = EmptyDict
    /\ documents = <<>>
    /\ extracted_info = <<>>
    /\ synthesis = EmptyDict
    /\ insights = EmptyDict
    /\ citations = <<>>
    /\ final_report = EmptyDict
    /\ raised = FALSE
    /\ calls = <<>>
    /\ discarded = 0
    /\ swot_prompt = <<>>
    /\ text = <<>>
    /\ parsed = [planner |-> <<>>, extractor |-> <<>>]

Plan ==
    /\ pc = "plan"
    /\ \E resp \in PlanResponses :
         LET r == CreateResearchPlan(stock_symbol, focus_arg, resp) IN
         /\ research_plan' = IF r.exc THEN research_plan ELSE r.val
         /\ raised' = r.exc
         /\ pc' = IF r.exc THEN "aborted" ELSE "retrieve"
         /\ calls' = calls \o CallsMade("plan", <<resp>>, 1, 1)
    /\ UNCHANGED <<stock_symbol, focus_arg, documents, extracted_info, synthesis,
                   insights, citations, final_report, discarded, swot_prompt, benchVars>>

Retrieve ==
    /\ pc = "retrieve"
    /\ LET n == Len(Take(Subtopics(research_plan), RetrieveCap)) IN
       \E resps \in Oracles(n, RetrieveResponses) :
         LET r == RetrieveInformation(stock_symbol, research_plan, resps) IN
         /\ documents' = IF r.exc THEN documents ELSE r.val
         /\ raised' = r.exc
         /\ pc' = IF r.exc THEN "aborted" ELSE "extract"
         /\ calls' = calls \o CallsMade("retrieve", resps, 1, n)
    /\ UNCHANGED <<stock_symbol, focus_arg, research_plan, extracted_info, synthesis,
                   insights, citations, final_report, discarded, swot_prompt, benchVars>>

Extract ==
    /\ pc = "extract"
    /\ LET n == Len(documents) IN
       \E resps \in Oracles(n, ExtractResponses) :
         LET body == ExtractBody(documents, research_plan, resps)
             r == ExtractInformation(documents, research_plan, resps)
         IN
         /\ extracted_info' = IF r.exc THEN extracted_info ELSE r.val
         /\ raised' = r.exc
         /\ pc' = IF r.exc THEN "aborted" ELSE "synthesize"
         /\ calls' = calls \o CallsMade("extract", resps, 1, n)
         /\ discarded' = IF body.exc THEN CountFindings(body.val) ELSE 0
    /\ UNCHANGED <<stock_symbol, focus_arg, research_plan, documents, synthesis,
                   insights, citations, final_report, swot_prompt, benchVars>>

Synthesize ==
    /\ pc = "synthesize"
    /\ LET n == Len(required_sections) + 1 IN
       \E resps \in SynthesisOracles :
         LET r == SynthesizeInformation(extracted_info, research_plan, resps) IN
         /\ synthesis' = IF r.exc THEN synthesis ELSE r.val
         /\ raised' = r.exc
         /\ pc' = IF r.exc THEN "aborted" ELSE "insights"
         /\ calls' = calls \o CallsMade("synthesize", resps, 1, n)
    /\ UNCHANGED <<stock_symbol, focus_arg, research_plan, documents, extracted_info,
                   insights, citations, final_report, discarded, swot_prompt, benchVars>>

Insights ==
    /\ pc = "insights"
    /\ \E resps \in Oracles(2, InsightResponses) :
         LET r == GenerateInsights(synthesis, stock_symbol, resps) IN
         /\ insights' = IF r.exc THEN insights ELSE r.val
         /\ raised' = r.exc
         /\ pc' = IF r.exc THEN "aborted" ELSE "citations"
         /\ calls' = calls \o CallsMade("insights", resps, 1, 2)
         /\ swot_prompt' = SwotPrompt(synthesis, stock_symbol)
    /\ UNCHANGED <<stock_symbol, focus_arg, research_plan, documents, extracted_info,
                   synthesis, citations, final_report, discarded, benchVars>>

Citations_ClearsDocuments ==
    /\ pc = "citations"
    /\ citations' = FormatCitations(documents)
    /\ documents' = <<>>
    /\ pc' = "report"
    /\ UNCHANGED <<stock_symbol, focus_arg, research_plan, extracted_info,
                   synthesis, insights, final_report, raised, calls, discarded,
                   swot_prompt, benchVars>>

Citations ==
    /\ pc = "citations"
    /\ citations' = FormatCitations(documents)
    /\ pc' = "report"
    /\ UNCHANGED <<stock_symbol, focus_arg, research_plan, documents, extracted_info,
                   synthesis, insights, final_report, raised, calls, discarded,
                   swot_prompt, benchVars>>

Report ==
    /\ pc = "report"
    /\ LET r == CreateFinalReport(research_plan, documents, synthesis, insights,
                                  citations) IN
       /\ final_report' = IF r.exc THEN final_report ELSE r.val
       /\ raised' = r.exc
       /\ pc' = IF r.exc THEN "aborted" ELSE "done"
    /\ UNCHANGED <<stock_symbol, focus_arg, research_plan, documents, extracted_info,
                   synthesis, insights, citations, calls, discarded, swot_prompt, benchVars>>

Next == Plan \/ Retrieve \/ Extract \/ Synthesize \/ Insights \/ Citations \/ Report

Spec == Init /\ [][Next]_vars

----------------------------------------------------------------------------
(* Parser bench: both response parsers applied to the same text *)

BenchLines ==
    { <<>>, <<SP>>,
      <<"-", SP, "a">>, <<"*", SP, "b">>, <<BULLET, SP, "c">>,
      <<"c">>, <<"-">>,
      <<"-", SP, SP, "a">>, <<SP, "-", SP, "b", SP>> }

BenchTexts == { JoinLines(ls) : ls \in SeqsUpTo(BenchLines, MaxLines) }

InitBench ==
    /\ pc = "bench"
    /\ stock_symbol \in Symbols
    /\ focus_arg = [given |-> FALSE, areas |-> <<>>]
    /\ research_plan = EmptyDict
    /\ documents = <<>>
    /\ extracted_info = <<>>
    /\ synthesis = EmptyDict
    /\ insights = EmptyDict
    /\ citations = <<>>
    /\ final_report = EmptyDict
    /\ raised = FALSE
    /\ calls = <<>>
    /\ discarded = 0
    /\ swot_prompt = <<>>
    /\ text \in BenchTexts
    /\ parsed = [planner |-> <<>>, extractor |-> <<>>]

\* parsed.x is <<>> before the parser ran and <<result>> after
PlannerParse ==
    /\ pc = "bench"
    /\ parsed.planner = <<>>
    /\ parsed' = [parsed EXCEPT !.planner = <<ParseTopics(text)>>]
    /\ UNCHANGED <<pipeVars, text>>

ExtractorParse ==
    /\ pc = "bench"
    /\ parsed.extractor = <<>>
    /\ parsed' = [parsed EXCEPT !.extractor = <<ParseFindings(text)>>]
    /\ UNCHANGED <<pipeVars, text>>

NextBench == PlannerParse \/ ExtractorParse

SpecBench == InitBench /\ [][NextBench]_vars

----------------------------------------------------------------------------
(* The Report Assembler on its own: _create_final_report called on every  *)
(* combination of empty and populated fields                              *)

SomeReplies == [i \in 1..(Len(required_sections) + 1) |-> Reply(Str("GEN"))]

AssemblePlans ==
    { EmptyDict,
      CreateResearchPlan("NVDA", [given |-> FALSE, areas |-> <<>>], Fail).val,
      CreateResearchPlan("NVDA", [given |-> TRUE, areas |-> <<>>], Reply(Str("none"))).val }

AssembleDocuments ==
    { <<>>,
      RetrieveFallback("NVDA"),
      RetrieveLoop("NVDA", FallbackTopics, 1, <<>>, SomeReplies).val }

AssembleSyntheses ==
    LET plan == CreateResearchPlan("NVDA", [given |-> FALSE, areas |-> <<>>], Fail).val
        made == SynthesizeBody(<<>>, plan, SomeReplies).val
    IN { EmptyDict,
         SynthesizeFallback(plan),
         made,
         [made EXCEPT !.executive_summary = <<>>],
         [made EXCEPT !.sections = <<>>],
         [executive_summary |-> Str("GEN")] }

AssembleInsights ==
    { EmptyDict,
      GenerateFallback("NVDA"),
      [stock_symbol |-> "NVDA", insights |-> EmptyDict, generation_date |-> NOW],
      [stock_symbol |-> "NVDA", insights |-> [swot_analysis |-> Str("GEN")],
       generation_date |-> NOW] }

AssembleCitations ==
    { FormatCitations(docs) : docs \in AssembleDocuments }

InitAssemble ==
    /\ pc = "report"
    /\ stock_symbol \in Symbols
    /\ focus_arg = [given |-> FALSE, areas |-> <<>>]
    /\ research_plan \in AssemblePlans
    /\ documents \in AssembleDocuments
    /\ extracted_info = <<>>
    /\ synthesis \in AssembleSyntheses
    /\ insights \in AssembleInsights
    /\ citations \in AssembleCitations
    /\ final_report = EmptyDict
    /\ raised = FALSE
    /\ calls = <<>>
    /\ discarded = 0
    /\ swot_prompt = <<>>
    /\ text = <<>>
    /\ parsed = [planner |-> <<>>, extractor |-> <<>>]

NextAssemble == Report

SpecAssemble == InitAssemble /\ [][NextAssemble]_vars

----------------------------------------------------------------------------
(* Properties *)

Retrieved == pc \in {"extract", "synthesize", "insights", "citations", "report", "done"}
Planned == pc = "retrieve" \/ Retrieved
Extracted == pc \in {"synthesize", "insights", "citations", "report", "done"}
Synthesized == pc \in {"insights", "citations", "report", "done"}
Generated == pc \in {"citations", "report", "done"}

CallsOf(stage) == SelectSeq(calls, LAMBDA c : c.stage = stage)
OkCalls(stage) == SelectSeq(calls, LAMBDA c : c.stage = stage /\ c.ok)
AllCallsFailed == \A i \in DOMAIN calls : ~calls[i].ok
FailedIn(stage) == \E i \in DOMAIN calls : calls[i].stage = stage /\ ~calls[i].ok

\* C1: the plan returned by the Planner has a research_topics list that is
\* non-empty and has at most 10 entries, whatever the reply (stated as
\* claimed; the code returns an empty list for a reply without bullets).
C1_PlanTopicsBounded ==
    Planned => /\ research_plan.research_topics # <<>>
               /\ Len(research_plan.research_topics) <= PlanCap

\* C2: when every generation call fails, every stage still yields its
\* fallback shape: a plan with topics, at least one document, at least one
\* finding, a synthesis with a non-empty executive summary and non-empty
\* sections, two non-empty insight narratives, and a report is returned.
C2_FallbackShapes ==
    AllCallsFailed =>
        /\ ~raised /\ pc # "aborted"
        /\ Planned => research_plan.research_topics # <<>>
        /\ Retrieved => Len(documents) >= 1
        /\ Extracted => CountFindings(extracted_info) >= 1
        /\ Synthesized =>
              /\ synthesis.executive_summary # <<>>
              /\ synthesis.sections # <<>>
              /\ \A i \in DOMAIN synthesis.sections : synthesis.sections[i].v # <<>>
        /\ Generated =>
              /\ insights.insights.swot_analysis # <<>>
              /\ insights.insights.investment_considerations # <<>>
        /\ pc = "done" =>
              /\ final_report # EmptyDict
              /\ final_report.table_of_contents = table_of_contents

C2_Witness ==
    /\ pc = "done"
    /\ AllCallsFailed
    /\ \A st \in {"plan", "retrieve", "extract", "synthesize", "insights"} : FailedIn(st)

\* C3: whatever calls succeed or fail, no failure leaves the stage it occurs
\* in: every stage that ran has returned its value, and a finished run has
\* returned a report.
C3_NoFailurePropagates ==
    /\ ~raised /\ pc # "aborted"
    /\ Planned => research_plan # EmptyDict
    /\ Synthesized => synthesis # EmptyDict
    /\ Generated => insights # EmptyDict
    /\ Retrieved => Len(documents) <= RetrieveCap
    /\ Extracted => Len(extracted_info) = Len(documents)
    /\ pc = "done" => final_report # EmptyDict /\ "sections" \in DOMAIN final_report

C3_Witness ==
    /\ pc = "done"
    /\ \E i \in DOMAIN calls : calls[i].ok
    /\ FailedIn("retrieve") /\ Len(CallsOf("retrieve")) >= 2
    /\ FailedIn("extract") /\ FailedIn("synthesize") /\ FailedIn("insights")
    /\ ~FailedIn("plan")

\* C4: the number of documents the Retriever returns equals the number of
\* topics it processed (counted either as the topics it called the
\* generation capability for or as the topics whose document it stored) and
\* is at most 5 (stated as claimed; the code returns the single fallback
\* document when a later call fails).
C4_DocsEqualProcessed ==
    Retrieved =>
        /\ Len(documents) <= RetrieveCap
        /\ Len(documents) \in {Len(CallsOf("retrieve")), Len(OkCalls("retrieve"))}

\* C5: in the Retriever the document of every topic whose call succeeded is
\* in the result (stated as claimed; the code drops them on a later failure).
C5_SucceededTopicsKept ==
    Retrieved =>
        LET topics == Take(Subtopics(research_plan), RetrieveCap)
            made == CallsOf("retrieve")
        IN \A i \in DOMAIN made :
              made[i].ok =>
                 \E j \in DOMAIN documents :
                    /\ documents[j].k = DocId(stock_symbol, ToString(i))
                    /\ documents[j].v.topic = topics[i]

\* C6: the Retriever never returns an empty document set (stated as
\* claimed; the code returns no document for a plan without topics whose
\* focus-area list is empty).
C6_DocsNonEmpty == Retrieved => Len(documents) >= 1

----------------------------------------------------------------------------
(* Properties of the response parsers *)

PlannerMarkers == {"-", "*"}
ExtractorMarkers == {"-", "*", BULLET}

BothParsed == parsed.planner # <<>> /\ parsed.extractor # <<>>

\* a bullet on a line of its own: marker, one space, content without
\* surrounding whitespace
CleanLine(line, markers) ==
    /\ Len(line) >= 3
    /\ line[1] \in markers /\ line[2] = SP
    /\ line[3] # SP /\ line[Len(line)] # SP

CleanText(t, markers) == \A i \in DOMAIN SplitLines(t) : CleanLine(SplitLines(t)[i], markers)

Unmarked(t) == [i \in DOMAIN SplitLines(t) |-> SubSeq(SplitLines(t)[i], 3, Len(SplitLines(t)[i]))]

\* C7: for a text with exactly one bullet per line and no continuation
\* lines, each parser returns one entry per line, in line order, each entry
\* being the line without its bullet marker.
C7_CleanInput ==
    /\ (parsed.planner # <<>> /\ CleanText(text, PlannerMarkers))
          => parsed.planner[1] = Unmarked(text)
    /\ (parsed.extractor # <<>> /\ CleanText(text, ExtractorMarkers))
          => parsed.extractor[1] = Unmarked(text)

C7_Witness ==
    /\ BothParsed
    /\ CleanText(text, PlannerMarkers)
    /\ Len(SplitLines(text)) >= 3
    /\ \E i, j \in DOMAIN SplitLines(text) : SplitLines(text)[i] # SplitLines(text)[j]

\* what a line is to a parser with the given markers
IsBullet(line, markers) ==
    LET l == Strip(line) IN Len(l) >= 2 /\ l[1] \in markers /\ l[2] = SP

BulletLines(lines, markers) == { i \in DOMAIN lines : IsBullet(lines[i], markers) }

\* the k-th bullet line
NthBullet(lines, markers, k) ==
    CHOOSE i \in BulletLines(lines, markers) :
        Cardinality({ j \in BulletLines(lines, markers) : j < i }) = k - 1

\* the lines from j up to the next bullet, each non-blank one preceded by
\* one space
RECURSIVE Continuation(_, _, _)
Continuation(lines, markers, j) ==
    IF j > Len(lines) \/ IsBullet(lines[j], markers) THEN <<>>
    ELSE (IF Strip(lines[j]) = <<>> THEN <<>> ELSE <<SP>> \o Strip(lines[j]))
         \o Continuation(lines, markers, j + 1)

\* entries[k] is what the k-th bullet line has after its marker, followed by
\* the bullet's continuation
Accumulates(entries, lines, markers) ==
    /\ Len(entries) = Cardinality(BulletLines(lines, markers))
    /\ \A k \in DOMAIN entries :
          LET b == NthBullet(lines, markers, k)
              rest == Continuation(lines, markers, b + 1)
          IN /\ Len(entries[k]) > Len(rest)
             /\ SubSeq(entries[k], Len(entries[k]) - Len(rest) + 1, Len(entries[k])) = rest
             /\ LET first == SubSeq(entries[k], 1, Len(entries[k]) - Len(rest))
                    l == Strip(lines[b])
                IN \E n \in 3..Len(l) : first = SubSeq(l, n, Len(l))

ContinuationExample == <<"-", SP, "a", NL, "c">>

\* C8: in each parser every non-blank line without a bullet marker that
\* follows a bullet is appended to that bullet's entry after exactly one
\* space and starts no entry; blank lines and unmarked lines before the
\* first bullet add nothing ("- a\nc" gives the single entry "a c").
C8_ContinuationMerging ==
    /\ parsed.planner # <<>> =>
          /\ Accumulates(parsed.planner[1], SplitLines(text), PlannerMarkers)
          /\ text = ContinuationExample => parsed.planner[1] = << <<"a", SP, "c">> >>
    /\ parsed.extractor # <<>> =>
          /\ Accumulates(parsed.extractor[1], SplitLines(text), ExtractorMarkers)
          /\ text = ContinuationExample => parsed.extractor[1] = << <<"a", SP, "c">> >>

C8_Witness ==
    /\ BothParsed
    /\ text = JoinLines(<< <<"c">>, <<"-", SP, "a">>, <<"c">> >>)
    /\ parsed.planner[1] = << <<"a", SP, "c">> >>

\* C9: the Planner's and the Extractor's parser return the same list of
\* entries for every response text (stated as claimed; the code's two
\* parsers differ in the markers they know and in trimming the entry).
C9_SameParser == BothParsed => parsed.planner[1] = parsed.extractor[1]

\* C10: when a generation call of the Extractor fails, the result holds for
\* every document of the input exactly one finding, with confidence 0.5, the
\* document's topic and the document's id; no finding parsed before the
\* failure is in it.
C10_ExtractionFallback ==
    (Extracted /\ FailedIn("extract")) =>
        /\ Len(extracted_info) = Len(documents)
        /\ \A i \in DOMAIN documents :
              /\ extracted_info[i].k = documents[i].k
              /\ Len(extracted_info[i].v) = 1
              /\ extracted_info[i].v[1].confidence = FallbackConfidence
              /\ extracted_info[i].v[1].topic = documents[i].v.topic
              /\ extracted_info[i].v[1].source_document = documents[i].v.id
        /\ \A i \in DOMAIN extracted_info : \A j \in DOMAIN extracted_info[i].v :
              extracted_info[i].v[j].confidence # ParsedConfidence

C10_Witness ==
    /\ Extracted /\ FailedIn("extract")
    /\ Len(documents) >= 3
    /\ discarded >= 2
    /\ Len(OkCalls("extract")) >= 2

----------------------------------------------------------------------------
(* Properties of the Synthesizer, the Insight Generator and the report *)

Keys(d) == [i \in DOMAIN d |-> d[i].k]

NormalizedKeys == [i \in DOMAIN required_sections |-> SectionKey(required_sections[i])]

\* C11: the Synthesizer returns one fixed set of five section keys, the
\* normalized names of the five canonical sections, when all its calls
\* succeed and when it falls back (stated as claimed; the fallback of the
\* code keeps the ampersand in two keys).
C11_FixedSectionKeys == Synthesized => Keys(synthesis.sections) = NormalizedKeys

Occurrences(piece, whole) ==
    Cardinality({ i \in 1..(Len(whole) - Len(piece) + 1) :
                     SubSeq(whole, i, i + Len(piece) - 1) = piece })

Narratives(synth) == { synth.sections[i].v : i \in DOMAIN synth.sections } \ {<<>>}

\* C12: the first prompt of the Insight Generator embeds the narrative of
\* every section of the synthesis it was given: each narrative occurs in the
\* prompt as often as sections carry it (stated as claimed; after a
\* successful synthesis the code looks two sections up under keys the
\* Synthesizer did not write).
C12_PromptEmbedsSections ==
    Generated =>
        \A n \in Narratives(synthesis) :
            Occurrences(n, swot_prompt)
               >= Cardinality({ i \in DOMAIN synthesis.sections : synthesis.sections[i].v = n })

\* C13: the Report Assembler never fails and makes no generation call:
\* for every combination of empty or populated plan, documents, synthesis,
\* insights and citations it returns a report whose table of contents is the
\* fixed list of nine entries and whose sections include "introduction" and
\* "references".
C13_AssemblerTotal ==
    /\ ~raised /\ pc \in {"report", "done"}
    /\ calls = <<>>
    /\ pc = "done" =>
          /\ "table_of_contents" \in DOMAIN final_report
          /\ Len(final_report.table_of_contents) = 9
          /\ final_report.table_of_contents = table_of_contents
          /\ \E i \in DOMAIN final_report.sections :
                final_report.sections[i].k = Str("introduction")
          /\ \E i \in DOMAIN final_report.sections :
                final_report.sections[i].k = Str("references")

C13_Witness ==
    /\ pc = "done"
    /\ research_plan = EmptyDict /\ documents = <<>> /\ synthesis = EmptyDict
    /\ insights = EmptyDict /\ citations = <<>>
    /\ Len(final_report.sections) = 2

Cited == pc \in {"report", "done"}

CitationOf(source, topic, date) ==
    <<source, ". '">> \o topic \o <<"'. Retrieved on ", date, ".">>

\* C14: the Citation Formatter returns one citation per document, the i-th
\* one rendered from the source, topic and retrieval date of the i-th
\* document in insertion order and from nothing else, so that equal
\* document lists give equal citation lists.
C14_CitationsFollowDocuments ==
    Cited =>
        /\ Len(citations) = Len(documents)
        /\ \A i \in DOMAIN documents :
              citations[i] = CitationOf(documents[i].v.source, documents[i].v.topic,
                                        documents[i].v.retrieval_date)
        /\ \A i, j \in DOMAIN documents :
              (/\ documents[i].v.source = documents[j].v.source
               /\ documents[i].v.topic = documents[j].v.topic
               /\ documents[i].v.retrieval_date = documents[j].v.retrieval_date)
                 => citations[i] = citations[j]

C14_Witness ==
    /\ Cited
    /\ Len(documents) >= 3
    /\ \A i, j \in DOMAIN documents : i # j => citations[i] # citations[j]

StageOrder ==
    <<"plan", "retrieve", "extract", "synthesize", "insights", "citations", "report",
      "done">>

\* C15: within one run the stages execute strictly in the order Planner,
\* Retriever, Extractor, Synthesizer, Insight Generator, Citation Formatter,
\* Assembler, one starting when the previous one has returned, and each
\* field of the pipeline state changes only in the step of its own stage.
C15_SequentialWriteOnce ==
    [][ /\ \E i \in 1..(Len(StageOrder) - 1) :
              pc = StageOrder[i] /\ pc' = StageOrder[i + 1]
        /\ research_plan' # research_plan => pc = "plan"
        /\ documents' # documents => pc = "retrieve"
        /\ extracted_info' # extracted_info => pc = "extract"
        /\ synthesis' # synthesis => pc = "synthesize"
        /\ insights' # insights => pc = "insights"
        /\ citations' # citations => pc = "citations"
        /\ final_report' # final_report => pc = "report"
      ]_vars

C15_Witness ==
    /\ pc = "done"
    /\ research_plan # EmptyDict /\ documents # <<>> /\ extracted_info # <<>>
    /\ synthesis # EmptyDict /\ insights # EmptyDict /\ citations # <<>>
    /\ final_report # EmptyDict
    /\ final_report.metadata.research_plan = research_plan
    /\ final_report.metadata.document_count = Len(documents)

GeneratedNarratives == { Strip(r.text) : r \in { x \in SummaryResponses : x.ok } }

\* C16: when any of the Synthesizer's six calls fails, the synthesis it
\* returns has a non-empty executive summary and exactly one non-empty
\* narrative for each of the five required sections, in their order; nothing
\* of the section mapping built before the failure is in it.
C16_SynthesisFallbackShape ==
    (Synthesized /\ FailedIn("synthesize")) =>
        /\ synthesis.executive_summary # <<>>
        /\ Len(synthesis.sections) = Len(required_sections)
        /\ \A i \in DOMAIN synthesis.sections :
              /\ Title(Replace(synthesis.sections[i].k, <<"_">>, <<SP>>)) = required_sections[i]
              /\ synthesis.sections[i].v # <<>>
              /\ synthesis.sections[i].v \notin GeneratedNarratives
        /\ synthesis.executive_summary \notin GeneratedNarratives

C16_Witness ==
    /\ Synthesized /\ FailedIn("synthesize")
    /\ Len(OkCalls("synthesize")) = Len(required_sections)

\* a table-of-contents entry without its "N. " numbering
Unnumbered(entry) == SubSeq(entry, 3, Len(entry))

\* C17: after every run the report has exactly nine sections, in the order
\* of the nine table-of-contents entries, the title of the i-th section
\* being the i-th entry without its numbering (stated as claimed; after a
\* successful synthesis the code titles two sections without the ampersand
\* of their entry).
C17_SectionsMatchContents ==
    pc = "done" =>
        /\ Len(final_report.sections) = Len(final_report.table_of_contents)
        /\ Len(final_report.sections) = 9
        /\ \A i \in DOMAIN final_report.sections :
              final_report.sections[i].v.title
                 = Unnumbered(final_report.table_of_contents[i])

====
